---- MODULE Spec2Model ----
(***************************************************************************)
(* Model of set-asus-battery.py: a Tk window that shows the battery charge *)
(* threshold read from a sysfs control file and, on "Apply", validates the *)
(* entry text and writes the value through `pkexec /bin/bash -c "echo .."`.*)
(*                                                                         *)
(* Text is modelled as a sequence of one-character strings, so that        *)
(* int(), str.strip() and the f-string formatting are computed character   *)
(* by character.  Fixed literals of the program (label prefix, dialog      *)
(* titles) are single tokens.                                              *)
(***************************************************************************)
EXTENDS Integers, Sequences, FiniteSets, TLC

VARIABLES
    pc,            \* position of the main block: start, constructed, mainloop, exited
    quitMainLoop,  \* Tk's quit flag, set by master.quit()
    paths,         \* the glob result seen by find_battery_path
    battery_path,  \* self.battery_path
    entry,         \* text held by the self.entry widget
    label,         \* text of self.current_value_label
    fstat,         \* condition of the control file: ok, missing, denied, ioerror
    fdata,         \* bytes of the control file
    val_int,       \* outcome of the validation of the last Apply
    proc,          \* what subprocess.run did in the last Apply
    cmds,          \* commands handed to subprocess.run by the last step
    notes,         \* message boxes shown by the last step
    ops,           \* operations performed by the last step, in order
    nApply,        \* number of Apply clicks handled so far
    nDispatch      \* number of commands handed to subprocess.run so far

vars == <<pc, quitMainLoop, paths, battery_path, entry, label, fstat, fdata,
          val_int, proc, cmds, notes, ops, nApply, nDispatch>>

-----------------------------------------------------------------------------
(* Bounds *)

\* longest entry text enumerated when the validation is checked on its own
MaxLen == 3

\* number of Apply clicks followed in one run
MaxApplies == 2

-----------------------------------------------------------------------------
(* Text helpers *)

None == "None"

DigitChars == <<"0", "1", "2", "3", "4", "5", "6", "7", "8", "9">>

Digits == {DigitChars[i] : i \in 1..10}

DigitVal(c) == (CHOOSE i \in 1..10 : DigitChars[i] = c) - 1

\* characters str.strip() and int() treat as white space
Whitespace == {" ", "\t", "\n"}

RECURSIVE LStrip(_)
LStrip(s) ==
    IF s # <<>> /\ Head(s) \in Whitespace THEN LStrip(Tail(s)) ELSE s

RECURSIVE RStrip(_)
RStrip(s) ==
    IF s # <<>> /\ s[Len(s)] \in Whitespace
    THEN RStrip(SubSeq(s, 1, Len(s) - 1))
    ELSE s

\* mutation: strip() forgotten, text is used as read
StripNothing(s) == s

\* str.strip()
Strip(s) == RStrip(LStrip(s))

\* str(int), as the f-strings format val_int
RECURSIVE DecStr(_)
DecStr(n) ==
    IF n < 0 THEN <<"-">> \o DecStr(0 - n)
    ELSE IF n < 10 THEN <<DigitChars[n + 1]>>
    ELSE DecStr(n \div 10) \o <<DigitChars[(n % 10) + 1]>>

-----------------------------------------------------------------------------
(* int(new_value): CPython scans the text left to right: leading white     *)
(* space, one optional sign, then digits in which a single underscore may   *)
(* stand between two digits, then trailing white space up to the end.       *)

\* scan of the digit part; prev is "start", "digit" or "underscore"
RECURSIVE ScanDigits(_, _, _)
ScanDigits(s, acc, prev) ==
    IF s = <<>> \/ Head(s) \in Whitespace
    THEN [ok |-> prev = "digit" /\ LStrip(s) = <<>>, v |-> acc]
    ELSE IF Head(s) \in Digits
    THEN ScanDigits(Tail(s), acc * 10 + DigitVal(Head(s)), "digit")
    ELSE IF Head(s) = "_" /\ prev = "digit"
    THEN ScanDigits(Tail(s), acc, "underscore")
    ELSE [ok |-> FALSE, v |-> 0]

\* int(s): ok = FALSE stands for ValueError
PyInt(s) ==
    LET t    == LStrip(s)
        sign == IF t # <<>> /\ Head(t) = "-" THEN 0 - 1 ELSE 1
        body == IF t # <<>> /\ Head(t) \in {"+", "-"} THEN Tail(t) ELSE t
        r    == ScanDigits(body, 0, "start")
    IN  IF r.ok THEN [ok |-> TRUE, v |-> sign * r.v] ELSE [ok |-> FALSE, v |-> 0]

\* mutation: the lower bound is not enforced
InRangeNoFloor(v) == v <= 100

\* mutation: the upper bound is exclusive
InRangeBelowHundred(v) == 20 <= v /\ v < 100

\* 20 <= val_int <= 100
InRange(v) == 20 <= v /\ v <= 100

\* the try block of set_new_threshold: ok = FALSE stands for the
\* `except ValueError` branch
Validate(new_value) ==
    LET r == PyInt(new_value)
    IN  IF r.ok /\ InRange(r.v) THEN [ok |-> TRUE, v |-> r.v]
        ELSE [ok |-> FALSE, v |-> 0]

-----------------------------------------------------------------------------
(* The environment: glob results, the control file, the elevation command *)

\* what glob.glob(CHARGE_THRESHOLD_FILE_PATH) can do: raise, or return the
\* matching files in the file system's order
GlobResults ==
    {[raised |-> TRUE, matches |-> <<>>]} \cup
    {[raised |-> FALSE, matches |-> m] :
        m \in {<<>>, <<"BAT0">>, <<"BAT0", "BAT1">>, <<"BAT1", "BAT0">>}}

FStats == {"ok", "missing", "denied", "ioerror"}

\* bytes that are not valid text: reading them raises UnicodeDecodeError
Undecodable == <<"\\xff">>

\* contents other tools or the firmware leave in the control file
ExternalData == {<<"6", "0", "\n">>, <<"8", "0", "\n">>, Undecodable}

\* a missing file has no bytes
NoData == <<>>

\* texts the user types into the entry
EntryTexts ==
    { <<>>, <<"a">>, <<"1", "9">>, <<"2", "0">>, <<"1", "0", "0">>,
      <<"1", "0", "1">>, <<"8", "5">>, <<" ", "8", "5">>, <<"+", "8", "5">>,
      <<"8", "_", "5">>, <<"-", "8", "5">>, <<"0", "8", "5">>,
      <<"8", "5", " ">> }

\* how subprocess.run(command, check=True) ends
RunOutcomes == {"ok", "nonzero", "nofile", "other"}

\* what the elevation command leaves on stderr
Stderrs == {<<>>, <<"Request dismissed", "\n">>}

NoProc == [outcome |-> "none", stderr |-> <<>>]

NotValidated == [ok |-> FALSE, v |-> 0]

-----------------------------------------------------------------------------
(* Message boxes and label texts *)

Note(kind, title, detail) == [kind |-> kind, title |-> title, detail |-> detail]

NotFoundLabel == <<"Current value: Not Found">>

ReadErrorLabel == <<"Current value: Read Error">>

UnknownErrorLabel == <<"Current value: Unknown Error">>

\* f"Current value: {current_value}%"
ValueLabel(current_value) == <<"Current value: ">> \o current_value \o <<"%">>

-----------------------------------------------------------------------------
(* find_battery_path *)

\* mutation: the last match is taken
LastMatch(ps) == ps[Len(ps)]

\* paths[0]
FirstMatch(ps) == ps[1]

\* result of find_battery_path on a glob result: the value returned, the
\* message box shown and whether master.quit() was called
find_battery_path(g) ==
    IF g.raised
    THEN [ret |-> None, shown |-> <<Note("error", "Error", <<"finding the battery path">>)>>,
          quit |-> TRUE]
    ELSE IF g.matches = <<>>
    THEN [ret |-> None, shown |-> <<Note("error", "Error", <<"Could not find">>)>>,
          quit |-> TRUE]
    ELSE [ret |-> FirstMatch(g.matches), shown |-> <<>>, quit |-> FALSE]

-----------------------------------------------------------------------------
(* load_current_threshold *)

\* the label text load_current_threshold sets, for the path held and the
\* condition of the file at that path
load_current_threshold(path, st, data) ==
    IF path = None \/ st = "missing" THEN NotFoundLabel
    ELSE IF st \in {"denied", "ioerror"} THEN ReadErrorLabel
    ELSE IF data = Undecodable THEN UnknownErrorLabel
    ELSE ValueLabel(Strip(data))

-----------------------------------------------------------------------------
(* set_new_threshold *)

\* mutation: the path guard is missing
PathAlwaysDefined(path) == TRUE

\* `if not self.battery_path` fails
PathDefined(path) == path # None

\* the argument list built for subprocess.run
Command(v, path) ==
    <<"pkexec", "/bin/bash", "-c", <<"echo ">> \o DecStr(v) \o <<" > ", path>> >>

\* mutation: a failed command is run a second time
DispatchedWithRetry(command, outcome) ==
    IF outcome = "ok" THEN <<command>> ELSE <<command, command>>

\* the calls of subprocess.run made for one click
Dispatched(command, outcome) == <<command>>

\* mutation: the label is refreshed whatever the command did
RefreshesAlways(outcome) == TRUE

\* mutation: the label is never refreshed
RefreshesNever(outcome) == FALSE

\* load_current_threshold is called only on the line after a successful run
Refreshes(outcome) == outcome = "ok"

\* what `echo v > path`, run as root, leaves in the file
Echo(v) == DecStr(v) \o <<"\n">>

\* error_message of the CalledProcessError branch
ErrorMessage(stderr) ==
    IF stderr # <<>> THEN Strip(stderr) ELSE <<"The command was rejected or failed.">>

\* mutation: a missing pkexec is swallowed silently
RunNotesSilentNoFile(v, outcome, stderr) ==
    IF outcome = "ok" THEN <<Note("info", "Success", DecStr(v))>>
    ELSE IF outcome = "nonzero"
    THEN <<Note("error", "Execution Failed", ErrorMessage(stderr))>>
    ELSE IF outcome = "nofile" THEN <<>>
    ELSE <<Note("error", "An Unexpected Error Occurred", <<>>)>>

\* the message box of each branch of the try block around subprocess.run
RunNotes(v, outcome, stderr) ==
    IF outcome = "ok" THEN <<Note("info", "Success", DecStr(v))>>
    ELSE IF outcome = "nonzero"
    THEN <<Note("error", "Execution Failed", ErrorMessage(stderr))>>
    ELSE IF outcome = "nofile"
    THEN <<Note("error", "Error", <<"The 'pkexec' command was not found.">>)>>
    ELSE <<Note("error", "An Unexpected Error Occurred", <<>>)>>

\* one "notify" in the order of operations for each message box shown
Shown(boxes) == [i \in 1..Len(boxes) |-> "notify"]

InvalidInputNote == Note("warning", "Invalid Input", <<>>)

NoPathNote == Note("error", "Error", <<"battery path is not defined">>)

-----------------------------------------------------------------------------
(* Actions *)

Init ==
    /\ pc = "start"
    /\ quitMainLoop = FALSE
    /\ paths = <<>>
    /\ battery_path = None
    /\ entry = <<>>
    /\ label = <<>>
    /\ fstat \in FStats
    /\ fdata \in (IF fstat = "missing" THEN {NoData} ELSE ExternalData)
    /\ val_int = NotValidated
    /\ proc = NoProc
    /\ cmds = <<>>
    /\ notes = <<>>
    /\ ops = <<>>
    /\ nApply = 0
    /\ nDispatch = 0

\* Application.__init__: find_battery_path, create_widgets (an empty entry,
\* a label reading "Loading..." that load_current_threshold overwrites on
\* every branch), load_current_threshold
Application_init ==
    /\ pc = "start"
    /\ \E g \in GlobResults :
        LET r == find_battery_path(g)
        IN  /\ paths' = g.matches
            /\ battery_path' = r.ret
            /\ notes' = r.shown
            /\ quitMainLoop' = (quitMainLoop \/ r.quit)
            /\ label' = load_current_threshold(r.ret, fstat, fdata)
    /\ ops' = <<"resolve">> \o Shown(notes') \o <<"read">>
    /\ entry' = <<>>
    /\ pc' = "constructed"
    /\ UNCHANGED <<fstat, fdata, val_int, proc, cmds, nApply, nDispatch>>

\* app.mainloop(): Tk's mainloop clears the quit flag on entry and then serves
\* events until quit() is called or the window is destroyed, so a quit()
\* issued by find_battery_path before the loop runs is lost
mainloop ==
    /\ pc = "constructed"
    /\ quitMainLoop' = FALSE
    /\ pc' = "mainloop"
    /\ notes' = <<>>
    /\ ops' = <<>>
    /\ cmds' = <<>>
    /\ UNCHANGED <<paths, battery_path, entry, label, fstat, fdata, val_int,
                   proc, nApply, nDispatch>>

\* the user edits the entry
TypeText ==
    /\ pc = "mainloop"
    /\ \E s \in EntryTexts : entry' = s /\ s # entry
    /\ notes' = <<>>
    /\ ops' = <<>>
    /\ cmds' = <<>>
    /\ UNCHANGED <<pc, quitMainLoop, paths, battery_path, label, fstat, fdata,
                   val_int, proc, nApply, nDispatch>>

\* "Apply New Threshold" with text that int() rejects or that is out of range
ApplyInvalid ==
    /\ ~Validate(entry).ok
    /\ val_int' = NotValidated
    /\ notes' = <<InvalidInputNote>>
    /\ ops' = <<"validate">> \o Shown(notes')
    /\ cmds' = <<>>
    /\ proc' = NoProc
    /\ UNCHANGED <<label, fstat, fdata>>

\* valid text, but self.battery_path is None
ApplyNoPath ==
    /\ Validate(entry).ok
    /\ ~PathDefined(battery_path)
    /\ val_int' = Validate(entry)
    /\ notes' = <<NoPathNote>>
    /\ ops' = <<"validate">> \o Shown(notes')
    /\ cmds' = <<>>
    /\ proc' = NoProc
    /\ UNCHANGED <<label, fstat, fdata>>

\* valid text and a path: the command is run and, if it succeeded, the
\* success box is shown and the label is read again
ApplyRun ==
    /\ Validate(entry).ok
    /\ PathDefined(battery_path)
    /\ \E outcome \in RunOutcomes, stderr \in Stderrs :
        LET v       == Validate(entry).v
            command == Command(v, battery_path)
            written == outcome = "ok"
            st      == IF written /\ fstat = "missing" THEN "ok" ELSE fstat
            data    == IF written THEN Echo(v) ELSE fdata
        IN  /\ outcome # "nonzero" => stderr = <<>>
            /\ val_int' = Validate(entry)
            /\ proc' = [outcome |-> outcome, stderr |-> stderr]
            /\ cmds' = Dispatched(command, outcome)
            /\ fstat' = st
            /\ fdata' = data
            /\ notes' = RunNotes(v, outcome, stderr)
            /\ label' = IF Refreshes(outcome)
                        THEN load_current_threshold(battery_path, st, data)
                        ELSE label
            /\ ops' = <<"validate", "write">> \o Shown(notes') \o
                      (IF Refreshes(outcome) THEN <<"read">> ELSE <<>>)

\* the button's command
set_new_threshold ==
    /\ pc = "mainloop"
    /\ nApply < MaxApplies
    /\ \/ ApplyInvalid
       \/ ApplyNoPath
       \/ ApplyRun
    /\ nApply' = nApply + 1
    /\ nDispatch' = nDispatch + Len(cmds')
    /\ UNCHANGED <<pc, quitMainLoop, paths, battery_path, entry>>

\* the user closes the window: mainloop returns and the script ends
CloseWindow ==
    /\ pc = "mainloop"
    /\ pc' = "exited"
    /\ notes' = <<>>
    /\ ops' = <<>>
    /\ cmds' = <<>>
    /\ UNCHANGED <<quitMainLoop, paths, battery_path, entry, label, fstat,
                   fdata, val_int, proc, nApply, nDispatch>>

\* another tool, or the hardware, changes the control file
ExternalChange ==
    /\ pc # "exited"
    /\ \E st \in FStats :
        /\ fstat' = st
        /\ \E d \in (IF st = "missing" THEN {NoData} ELSE ExternalData) : fdata' = d
    /\ <<fstat', fdata'>> # <<fstat, fdata>>
    /\ UNCHANGED <<pc, quitMainLoop, paths, battery_path, entry, label,
                   val_int, proc, cmds, notes, ops, nApply, nDispatch>>

Next ==
    \/ Application_init
    \/ mainloop
    \/ TypeText
    \/ set_new_threshold
    \/ CloseWindow
    \/ ExternalChange

Spec == Init /\ [][Next]_vars

-----------------------------------------------------------------------------
(* The validation on its own, over every entry text up to MaxLen characters *)

Chars == {"0", "1", "2", "9", "-", "+", " ", "_", "a"}

AllTexts == UNION {[1..n -> Chars] : n \in 0..MaxLen}

InitValidate ==
    /\ pc = "validate"
    /\ entry \in AllTexts
    /\ quitMainLoop = FALSE
    /\ paths = <<>>
    /\ battery_path = None
    /\ label = <<>>
    /\ fstat = "missing"
    /\ fdata = NoData
    /\ val_int = NotValidated
    /\ proc = NoProc
    /\ cmds = <<>>
    /\ notes = <<>>
    /\ ops = <<>>
    /\ nApply = 0
    /\ nDispatch = 0

\* lines 70-78 of set_new_threshold applied to the entry text
ValidateEntry ==
    /\ pc = "validate"
    /\ val_int' = Validate(entry)
    /\ notes' = IF Validate(entry).ok THEN <<>> ELSE <<InvalidInputNote>>
    /\ ops' = <<"validate">> \o Shown(notes')
    /\ pc' = "validated"
    /\ UNCHANGED <<quitMainLoop, paths, battery_path, entry, label, fstat,
                   fdata, proc, cmds, nApply, nDispatch>>

NextValidate == ValidateEntry

SpecValidate == InitValidate /\ [][NextValidate]_vars

-----------------------------------------------------------------------------
(* Vocabulary of the properties, stated without the operators above *)

\* value of a digit string by place: the last digit counts once, the rest
\* ten times
RECURSIVE PlaceValue(_)
PlaceValue(d) ==
    IF d = <<>> THEN 0
    ELSE DigitVal(d[Len(d)]) + 10 * PlaceValue(SubSeq(d, 1, Len(d) - 1))

IsDigit(c) == c \in Digits

\* b is a run of digits, single underscores allowed between two digits, and
\* its digits read as n
Numeral(b, n) ==
    /\ b # <<>>
    /\ \A k \in 1..Len(b) : b[k] \in Digits \cup {"_"}
    /\ b[1] \in Digits
    /\ b[Len(b)] \in Digits
    /\ \A k \in 1..(Len(b) - 1) : ~(b[k] = "_" /\ b[k + 1] = "_")
    /\ PlaceValue(SelectSeq(b, IsDigit)) = n

\* t is a numeral for n with an optional sign in front
SignedNumeral(t, n) ==
    \/ Numeral(t, n)
    \/ t # <<>> /\ t[1] = "+" /\ Numeral(Tail(t), n)
    \/ t # <<>> /\ t[1] = "-" /\ Numeral(Tail(t), 0 - n)

\* s[i..j] is s without the white space around it
IsCore(s, i, j) ==
    /\ \A k \in 1..(i - 1) : s[k] \in Whitespace
    /\ \A k \in (j + 1)..Len(s) : s[k] \in Whitespace
    /\ s[i] \notin Whitespace
    /\ s[j] \notin Whitespace

\* s is a signed numeral for n between optional white space
IntText(s, n) ==
    \E i \in 1..Len(s) : \E j \in i..Len(s) :
        IsCore(s, i, j) /\ SignedNumeral(SubSeq(s, i, j), n)

\* s is accepted: it denotes an integer between 20 and 100
IsValidText(s) ==
    \E i \in 1..Len(s) : \E j \in i..Len(s) :
        IsCore(s, i, j) /\ \E n \in 20..100 : SignedNumeral(SubSeq(s, i, j), n)

\* s matches ^-?\d+$ (the texts enumerated hold no newline)
MatchesRegex(s) ==
    LET b == IF s # <<>> /\ s[1] = "-" THEN Tail(s) ELSE s
    IN  b # <<>> /\ \A k \in 1..Len(b) : b[k] \in Digits

\* the integer a text matching ^-?\d+$ denotes
RegexValue(s) ==
    IF s[1] = "-" THEN 0 - PlaceValue(Tail(s)) ELSE PlaceValue(s)

\* the decimal form of n, for 10 <= n <= 100
Decimal(n) ==
    IF n = 100 THEN <<"1", "0", "0">>
    ELSE <<DigitChars[(n \div 10) + 1], DigitChars[(n % 10) + 1]>>

\* the step is one Apply click
IsApply == nApply' = nApply + 1

\* the operations of a step without its message boxes
IsOperation(o) == o # "notify"

Operations(log) == SelectSeq(log, IsOperation)

Has(log, o) == \E k \in 1..Len(log) : log[k] = o

-----------------------------------------------------------------------------
(* Properties *)

\* C1: a command is handed to subprocess.run only when the entry text
\* denotes an integer v with 20 <= v <= 100, and the command is then exactly
\* pkexec /bin/bash -c "echo v > path" with v in decimal.
WriteOnlyValidated ==
    \A k \in 1..Len(cmds) :
        \E v \in 20..100 :
            /\ IntText(entry, v)
            /\ cmds[k] = <<"pkexec", "/bin/bash", "-c",
                           <<"echo ">> \o Decimal(v) \o <<" > ", battery_path>> >>

WriteOnlyValidatedWitness ==
    /\ cmds # <<>>
    /\ entry = <<" ", "8", "5">>
    /\ battery_path = "BAT1"

\* C2: once path resolution has found no control file the session is over:
\* the application never serves events and handles no Apply.
NoPathEndsSession ==
    (pc # "start" /\ battery_path = None) => (pc # "mainloop" /\ nApply = 0)

\* C3 (as stated): validation succeeds exactly when the text matches
\* ^-?\d+$ and its value lies between 20 and 100.
ValidIffRegex ==
    pc = "validated" =>
        (val_int.ok <=> (MatchesRegex(entry) /\ RegexValue(entry) \in 20..100))

\* C3 (amended): validation succeeds exactly when the text is what int()
\* accepts - optional white space around an optional sign and digits with
\* single underscores between them - and the value lies between 20 and 100;
\* every other text gives the Invalid Input warning.
ValidIffIntText ==
    pc = "validated" =>
        /\ val_int.ok <=> IsValidText(entry)
        /\ val_int.ok => IntText(entry, val_int.v)
        /\ ~val_int.ok => notes = <<Note("warning", "Invalid Input", <<>>)>>

ValidIffIntTextWitness ==
    /\ pc = "validated"
    /\ entry = <<"+", "2", "0">>
    /\ val_int.ok
    /\ val_int.v = 20

\* C4: every call of load_current_threshold leaves exactly the label that
\* the condition of the control file calls for - Not Found, Read Error,
\* Unknown Error, or the value without its white space - and the
\* application stays where it was; "80\n" gives "Current value: 80%".
ReadIsTotal ==
    [][ (pc = "start" \/ IsApply) /\ Has(ops', "read") =>
          /\ pc' = IF IsApply THEN "mainloop" ELSE "constructed"
          /\ label' =
               IF battery_path' = None \/ fstat' = "missing"
               THEN <<"Current value: Not Found">>
               ELSE IF fstat' \in {"denied", "ioerror"}
               THEN <<"Current value: Read Error">>
               ELSE IF fdata' = Undecodable
               THEN <<"Current value: Unknown Error">>
               ELSE <<"Current value: ">>
                    \o SubSeq(fdata', 1, Len(fdata') - 1) \o <<"%">>
          /\ (fstat' = "ok" /\ fdata' = <<"8", "0", "\n">>
                /\ battery_path' # None)
                => label' = <<"Current value: ", "8", "0", "%">>
      ]_vars

ReadIsTotalWitness ==
    /\ pc = "constructed"
    /\ battery_path = "BAT0"
    /\ fstat = "ok"
    /\ fdata = <<"8", "0", "\n">>
    /\ label = <<"Current value: ", "8", "0", "%">>

\* C5: an Apply whose command did not succeed - non-zero exit, missing
\* pkexec, any other failure - and an Apply that never ran a command leave
\* the label, the path and the file as they were and read nothing; a non-zero
\* exit is reported as Execution Failed with the stripped stderr text.
FailureLeavesDisplay ==
    [][ IsApply /\ proc'.outcome # "ok" =>
          /\ label' = label
          /\ battery_path' = battery_path
          /\ fstat' = fstat /\ fdata' = fdata
          /\ ~Has(ops', "read")
          /\ proc'.outcome = "nonzero" =>
                /\ Len(notes') = 1
                /\ notes'[1].kind = "error"
                /\ notes'[1].title = "Execution Failed"
                /\ proc'.stderr = <<"Request dismissed", "\n">>
                      => notes'[1].detail = <<"Request dismissed">>
      ]_vars

FailureLeavesDisplayWitness ==
    /\ proc = [outcome |-> "nonzero", stderr |-> <<"Request dismissed", "\n">>]
    /\ notes # <<>>
    /\ fstat = "ok"
    /\ fdata = <<"8", "0", "\n">>
    /\ label = <<"Current value: ", "6", "0", "%">>

\* C6 (as stated): after an Apply whose command succeeded the label shows the
\* value written.
SuccessShowsValue ==
    [][ IsApply /\ proc'.outcome = "ok" =>
          \E v \in 20..100 :
              /\ IntText(entry', v)
              /\ label' = <<"Current value: ">> \o Decimal(v) \o <<"%">>
      ]_vars

\* C6 (amended): after an Apply whose command succeeded, and with a control
\* file the user can read, the success box was shown first, the file was read
\* after it, the file holds v and the label shows v; when v was already the
\* value held and shown, file and label are as before.
SuccessShowsValueIfReadable ==
    [][ IsApply /\ proc'.outcome = "ok" /\ fstat' = "ok" =>
          \E v \in 20..100 :
              /\ IntText(entry', v)
              /\ ops' = <<"validate", "write", "notify", "read">>
              /\ notes' = <<Note("info", "Success", Decimal(v))>>
              /\ fdata' = Decimal(v) \o <<"\n">>
              /\ label' = <<"Current value: ">> \o Decimal(v) \o <<"%">>
              /\ (fstat = "ok" /\ fdata = Decimal(v) \o <<"\n">>
                    /\ label = <<"Current value: ">> \o Decimal(v) \o <<"%">>)
                    => (fdata' = fdata /\ label' = label)
      ]_vars

SuccessShowsValueIfReadableWitness ==
    /\ proc.outcome = "ok"
    /\ nDispatch = 2
    /\ entry = <<"8", "5">>
    /\ fstat = "ok"
    /\ fdata = <<"8", "5", "\n">>
    /\ label = <<"Current value: ", "8", "5", "%">>
    /\ ops = <<"validate", "write", "notify", "read">>

\* C7: every Apply shows exactly one message box - information when the
\* command succeeded, error when it failed in any way (the missing pkexec
\* reported as such) or when there is no path, warning when the text is not
\* valid - and leaves the application serving events.
OneNoticePerApply ==
    [][ IsApply =>
          /\ pc' = "mainloop"
          /\ Len(notes') = 1
          /\ notes'[1].kind =
               IF proc'.outcome = "ok" THEN "info"
               ELSE IF proc'.outcome \in {"nonzero", "nofile", "other"} THEN "error"
               ELSE IF IsValidText(entry') THEN "error"
               ELSE "warning"
          /\ proc'.outcome = "nofile" =>
                notes'[1].detail = <<"The 'pkexec' command was not found.">>
      ]_vars

OneNoticePerApplyWitness ==
    /\ pc = "mainloop"
    /\ nApply = 2
    /\ proc.outcome = "nofile"
    /\ Len(notes) = 1
    /\ notes[1].kind = "error"

\* C8: a step hands at most one command to subprocess.run and reads at most
\* once; the commands run never outnumber the Apply clicks; the operations of
\* a step are resolve, read at start-up and a prefix of validate, write, read
\* for a click.
NoRetries ==
    /\ Len(cmds) <= 1
    /\ nDispatch <= nApply
    /\ Operations(ops) \in { <<>>, <<"resolve", "read">>, <<"validate">>,
                             <<"validate", "write">>,
                             <<"validate", "write", "read">> }
    /\ Has(ops, "resolve") => (pc = "constructed" /\ nApply = 0)
    /\ Has(ops, "validate") => pc = "mainloop"

NoRetriesWitness ==
    /\ nApply = 2
    /\ nDispatch = 2
    /\ proc.outcome = "nonzero"
    /\ Operations(ops) = <<"validate", "write">>

\* C9: battery_path is assigned by the constructor and never afterwards; it
\* is the first match of the glob, or None when there is none.
PathSetOnce ==
    [][ /\ pc # "start" => battery_path' = battery_path
        /\ pc' # "start" =>
              battery_path' = IF paths' = <<>> THEN None ELSE Head(paths')
      ]_vars

PathSetOnceWitness ==
    /\ pc = "mainloop"
    /\ paths = <<"BAT1", "BAT0">>
    /\ battery_path = "BAT1"
    /\ proc.outcome = "ok"

\* C10: with no path no command is ever run: an Apply then changes neither
\* file nor label, and shows the Invalid Input warning for a text that is not
\* valid and the path error for one that is.
NoPathNoWrite ==
    [][ /\ battery_path' = None => nDispatch' = 0
        /\ (IsApply /\ battery_path = None) =>
              /\ cmds' = <<>>
              /\ Operations(ops') = <<"validate">>
              /\ label' = label /\ fstat' = fstat /\ fdata' = fdata
              /\ Len(notes') = 1
              /\ IsValidText(entry) =>
                    (notes'[1].kind = "error" /\ notes'[1].title = "Error")
              /\ ~IsValidText(entry) =>
                    (notes'[1].kind = "warning"
                       /\ notes'[1].title = "Invalid Input")
      ]_vars

NoPathNoWriteWitness ==
    /\ battery_path = None
    /\ nApply = 2
    /\ entry = <<"8", "5">>
    /\ Len(notes) = 1
    /\ notes[1].kind = "error"
    /\ cmds = <<>>

====
